---- MODULE Spec2Model ----
(***************************************************************************)
(* The SMO facade (src/smo/api.py): an object that is calibrated once at   *)
(* construction and then serves smo_image, smo_probability, bg_mask, bg_rv *)
(* and bg_probability on images that are plain arrays or masked arrays.    *)
(*                                                                         *)
(* An image is a record [shape, data, mask, masked]: its pixels in         *)
(* row-major order, ndim = Len(shape), masked = isinstance(MaskedArray).   *)
(* Pixel values are floats: the integers 0..MaxVal and NaN.  Probabilities *)
(* are the integers 0..Scale, standing for 0/Scale .. Scale/Scale.         *)
(***************************************************************************)
EXTENDS Integers, Sequences, FiniteSets

VARIABLES ctor, self, calibrations, array, last, first

vars == <<ctor, self, calibrations, array, last, first>>

\* ------------------------------------------------------------------ bounds
NPix == 2
MaxVal == 1
Scale == 2

\* api.py:27, "By default, numpy.random.default_rng(seed=42)"
DefaultSeed == 42

\* ------------------------------------------------------------ float values
NaN == -1

Vals == (0..MaxVal) \cup {NaN}

IsNaN(x) == x = NaN

\* a >= b on floats: false when either side is NaN
FGe(a, b) == ~IsNaN(a) /\ ~IsNaN(b) /\ a >= b

\* a <= b on floats: false when either side is NaN
FLe(a, b) == ~IsNaN(a) /\ ~IsNaN(b) /\ a <= b

\* a == b on floats: false when either side is NaN
FEq(a, b) == ~IsNaN(a) /\ ~IsNaN(b) /\ a = b

SetMax(S) == CHOOSE m \in S : \A x \in S : x <= m

SetMin(S) == CHOOSE m \in S : \A x \in S : m <= x

\* ndarray.max(): NaN when any element is NaN
ArrayMax(data) ==
  IF \E i \in DOMAIN data : IsNaN(data[i]) THEN NaN
  ELSE SetMax({data[i] : i \in DOMAIN data})

\* ------------------------------------------------------------------ images
MaskedArray(shape, data, mask) ==
  [shape |-> shape, data |-> data, mask |-> mask, masked |-> TRUE]

ndarray(shape, data) ==
  [shape |-> shape, data |-> data,
   mask |-> [i \in DOMAIN data |-> FALSE], masked |-> FALSE]

ndim(image) == Len(image.shape)

\* masked_greater_equal with a strict comparison
masked_greater(image, value) ==
  MaskedArray(image.shape, image.data,
              [i \in DOMAIN image.data |->
                 FGe(image.data[i], value) /\ ~FEq(image.data[i], value)])

\* numpy.ma.masked_greater_equal(image, value)
masked_greater_equal(image, value) ==
  MaskedArray(image.shape, image.data,
              [i \in DOMAIN image.data |-> FGe(image.data[i], value)])

\* ------------------------------------------------------- the core (smo.py)
RECURSIVE FSum(_, _)
FSum(f, S) ==
  IF S = {} THEN 0
  ELSE LET x == CHOOSE y \in S : TRUE IN f[x] + FSum(f, S \ {x})

RECURSIVE Product(_)
Product(shape) ==
  IF shape = <<>> THEN 1 ELSE Head(shape) * Product(Tail(shape))

\* The SMO transform: smoothing at scale sigma (the unmasked values within
\* sigma of the pixel summed, the pixel itself counted twice), then
\* aggregation over the averaging window of extent size (the spread of the
\* smoothed values in the window).
\* Masked values are left out of every window; a position whose window
\* holds no unmasked value is masked in the output.
smo(input, sigma, size) ==
  LET n == Len(input.data)
      valid == {j \in 1..n : ~input.mask[j]}
      GW(i) == {j \in valid : j - i <= sigma /\ i - j <= sigma}
      g == [i \in 1..n |->
              IF \E j \in GW(i) \cup {i} : IsNaN(input.data[j]) THEN NaN
              ELSE input.data[i] + FSum(input.data, GW(i))]
      UW(i) == {j \in valid : i - j <= size \div 2 /\ j - i <= (size - 1) \div 2}
      stat(i) ==
        IF UW(i) = {} \/ \E j \in UW(i) : IsNaN(g[j]) THEN NaN
        ELSE SetMax({g[j] : j \in UW(i)}) - SetMin({g[j] : j \in UW(i)})
  IN  MaskedArray(input.shape,
                  [i \in 1..n |-> stat(i)],
                  [i \in 1..n |-> input.mask[i] \/ UW(i) = {}])

\* The values of a masked array at its unmasked, non-NaN positions, in order.
RECURSIVE compressed(_, _)
compressed(a, i) ==
  IF i > Len(a.data) THEN <<>>
  ELSE IF a.mask[i] \/ IsNaN(a.data[i]) THEN compressed(a, i + 1)
  ELSE <<a.data[i]>> \o compressed(a, i + 1)

\* A distribution built from a histogram of samples over their observed range.
HistogramRV(samples) == [samples |-> samples]

Support(rv) == {rv.samples[k] : k \in DOMAIN rv.samples}

\* cdf(value) -> probability in 0..Scale; NaN for NaN or an empty histogram
cdf(rv, x) ==
  IF IsNaN(x) \/ rv.samples = <<>> THEN NaN
  ELSE (Cardinality({k \in DOMAIN rv.samples : rv.samples[k] <= x}) * Scale)
         \div Len(rv.samples)

\* ppf(probability) -> value: the lower end of the observed range at 0, its
\* upper end at Scale
ppf(rv, p) ==
  IF rv.samples = <<>> THEN NaN
  ELSE IF p = 0 THEN SetMin(Support(rv))
  ELSE SetMin({v \in SetMin(Support(rv))..SetMax(Support(rv)) : cdf(rv, v) >= p})

\* numpy.random.Generator.normal(size=shape), as a linear congruential
\* generator over the pixel values
RECURSIVE lcg(_, _)
lcg(seed, k) == IF k = 0 THEN seed % 17 ELSE (5 * lcg(seed, k - 1) + 3) % 17

default_rng(random_state) ==
  IF random_state = <<>> THEN DefaultSeed ELSE random_state[1]

\* The Null Distribution: the SMO transform of one noise field of the
\* calibration shape, as a histogram distribution.
smo_rv(shape, sigma, size, random_state) ==
  LET seed == default_rng(random_state)
      image == ndarray(shape, [i \in 1..Product(shape) |->
                                 lcg(seed, i) % (MaxVal + 1)])
  IN  HistogramRV(compressed(smo(image, sigma, size), 1))

\* ------------------------------------------------ the core (background.py)
\* The input with only the pixels at or below the SMO cutoff left unmasked.
bg_mask(input, sigma, size, threshold) ==
  LET s == smo(input, sigma, size)
  IN  MaskedArray(input.shape, input.data,
                  [i \in DOMAIN input.data |->
                     input.mask[i] \/ s.mask[i]
                       \/ ~FLe(s.data[i], threshold)])

\* The distribution of the intensities of the background pixels.
bg_rv(input, sigma, size, threshold) ==
  HistogramRV(compressed(bg_mask(input, sigma, size, threshold), 1))

\* ------------------------------------------------- the facade (api.py)
NoField == [shape |-> <<>>, data |-> <<>>, mask |-> <<>>, masked |-> FALSE]

NoRV == HistogramRV(<<>>)

\* What a call gives back: raised (the ValueError), or a masked array
\* (kind "field") or a distribution (kind "rv").  log is the sequence of the
\* calls the method made, in order, each with its arguments:
\*   <<"_check_image", image>>
\*   <<"smo", input, sigma, size>>
\*   <<"cdf", values, probabilities>>        (of the Null Distribution)
\*   <<"ppf", probability, value>>           (of the Null Distribution)
\*   <<"bg_mask", input, sigma, size, threshold>>
\*   <<"bg_rv", input, sigma, size, threshold>>
\*   <<"bg_cdf", values, probabilities>>     (of the background distribution)
Raise(log) ==
  [raised |-> TRUE, kind |-> "none", field |-> NoField, rv |-> NoRV,
   log |-> log]

ReturnField(f, log) ==
  [raised |-> FALSE, kind |-> "field", field |-> f, rv |-> NoRV, log |-> log]

ReturnRV(rv, log) ==
  [raised |-> FALSE, kind |-> "rv", field |-> NoField, rv |-> rv, log |-> log]

\* SMO.__init__
SMO_init(args) ==
  [sigma |-> args.sigma,
   size |-> args.size,
   ndim |-> Len(args.shape),
   smo_rv |-> smo_rv(args.shape, args.sigma, args.size, args.random_state)]

\* _check_image without the check of the dimension
SMO_check_image_no_ndim(s, image) ==
  IF image.masked THEN [raised |-> FALSE, image |-> image]
  ELSE [raised |-> FALSE,
        image |-> masked_greater_equal(image, ArrayMax(image.data))]

\* _check_image masking the maximum of a masked array too
SMO_check_image_always_masks(s, image) ==
  IF ndim(image) # s.ndim THEN [raised |-> TRUE, image |-> NoField]
  ELSE LET m == masked_greater_equal(image, ArrayMax(image.data))
       IN  [raised |-> FALSE,
            image |-> MaskedArray(image.shape, image.data,
                                  [i \in DOMAIN image.data |->
                                     image.mask[i] \/ m.mask[i]])]

\* SMO._check_image
SMO_check_image(s, image) ==
  IF ndim(image) # s.ndim THEN [raised |-> TRUE, image |-> NoField]
  ELSE IF image.masked THEN [raised |-> FALSE, image |-> image]
  ELSE LET saturation == ArrayMax(image.data)
       IN  [raised |-> FALSE,
            image |-> masked_greater_equal(image, saturation)]

\* smo_image handing the caller's image, not the checked one, to smo
SMO_smo_image_unchecked_input(s, image) ==
  LET c == SMO_check_image(s, image)
      checked == << <<"_check_image", image>> >>
  IN  IF c.raised THEN Raise(checked)
      ELSE ReturnField(smo(image, s.sigma, s.size),
                       checked \o << <<"smo", image, s.sigma, s.size>> >>)

\* SMO.smo_image
SMO_smo_image(s, image) ==
  LET c == SMO_check_image(s, image)
      checked == << <<"_check_image", image>> >>
  IN  IF c.raised THEN Raise(checked)
      ELSE ReturnField(smo(c.image, s.sigma, s.size),
                       checked \o << <<"smo", c.image, s.sigma, s.size>> >>)

\* SMO.smo_probability
SMO_smo_probability(s, image) ==
  LET r == SMO_smo_image(s, image)
  IN  IF r.raised THEN Raise(r.log)
      ELSE LET prob == [i \in DOMAIN r.field.data |->
                          cdf(s.smo_rv, r.field.data[i])]
           IN  ReturnField(MaskedArray(r.field.shape, prob, r.field.mask),
                           r.log \o << <<"cdf", r.field.data, prob>> >>)

\* bg_mask passing the threshold probability itself as the cutoff
SMO_bg_mask_raw_threshold(s, image, threshold) ==
  LET c == SMO_check_image(s, image)
      checked == << <<"_check_image", image>> >>
  IN  IF c.raised THEN Raise(checked)
      ELSE ReturnField(
             bg_mask(c.image, s.sigma, s.size, threshold),
             checked \o << <<"bg_mask", c.image, s.sigma, s.size, threshold>> >>)

\* bg_mask taking the threshold as an upper-tail probability
SMO_bg_mask_upper_tail(s, image, threshold) ==
  LET c == SMO_check_image(s, image)
      checked == << <<"_check_image", image>> >>
  IN  IF c.raised THEN Raise(checked)
      ELSE LET cutoff == ppf(s.smo_rv, Scale - threshold)
           IN  ReturnField(
                 bg_mask(c.image, s.sigma, s.size, cutoff),
                 checked \o << <<"ppf", Scale - threshold, cutoff>>,
                               <<"bg_mask", c.image, s.sigma, s.size, cutoff>> >>)

\* bg_mask handing the caller's image, not the checked one, to the core
SMO_bg_mask_unchecked_input(s, image, threshold) ==
  LET c == SMO_check_image(s, image)
      checked == << <<"_check_image", image>> >>
  IN  IF c.raised THEN Raise(checked)
      ELSE LET cutoff == ppf(s.smo_rv, threshold)
           IN  ReturnField(
                 bg_mask(image, s.sigma, s.size, cutoff),
                 checked \o << <<"ppf", threshold, cutoff>>,
                               <<"bg_mask", image, s.sigma, s.size, cutoff>> >>)

\* SMO.bg_mask
SMO_bg_mask(s, image, threshold) ==
  LET c == SMO_check_image(s, image)
      checked == << <<"_check_image", image>> >>
  IN  IF c.raised THEN Raise(checked)
      ELSE LET cutoff == ppf(s.smo_rv, threshold)
           IN  ReturnField(
                 bg_mask(c.image, s.sigma, s.size, cutoff),
                 checked \o << <<"ppf", threshold, cutoff>>,
                               <<"bg_mask", c.image, s.sigma, s.size, cutoff>> >>)

\* bg_rv querying ppf for the cutoff and again for the argument it passes
SMO_bg_rv_two_ppf(s, image, threshold) ==
  LET c == SMO_check_image(s, image)
      checked == << <<"_check_image", image>> >>
  IN  IF c.raised THEN Raise(checked)
      ELSE LET cutoff == ppf(s.smo_rv, threshold)
           IN  ReturnRV(
                 bg_rv(c.image, s.sigma, s.size, cutoff),
                 checked \o << <<"ppf", threshold, cutoff>>,
                               <<"ppf", threshold, cutoff>>,
                               <<"bg_rv", c.image, s.sigma, s.size, cutoff>> >>)

\* SMO.bg_rv
SMO_bg_rv(s, image, threshold) ==
  LET c == SMO_check_image(s, image)
      checked == << <<"_check_image", image>> >>
  IN  IF c.raised THEN Raise(checked)
      ELSE LET cutoff == ppf(s.smo_rv, threshold)
           IN  ReturnRV(
                 bg_rv(c.image, s.sigma, s.size, cutoff),
                 checked \o << <<"ppf", threshold, cutoff>>,
                               <<"bg_rv", c.image, s.sigma, s.size, cutoff>> >>)

\* SMO.bg_probability
SMO_bg_probability(s, image, threshold) ==
  LET c == SMO_check_image(s, image)
      checked == << <<"_check_image", image>> >>
  IN  IF c.raised THEN Raise(checked)
      ELSE LET r == SMO_bg_rv(s, c.image, threshold)
           IN  IF r.raised THEN Raise(checked \o r.log)
               ELSE LET prob == [i \in DOMAIN c.image.data |->
                                   cdf(r.rv, c.image.data[i])]
                    IN  ReturnField(
                          MaskedArray(c.image.shape, prob, c.image.mask),
                          checked \o r.log
                            \o << <<"bg_cdf", c.image.data, prob>> >>)

\* ----------------------------------------------------------------- inputs
Shapes == {<<NPix>>, <<1, NPix>>}

\* The constructions: sigma 1 or 2, size 2 or 3, either shape, and the
\* default random_state or a generator of its own.
CtorArgs ==
  {[sigma |-> 1, size |-> 2, shape |-> <<NPix>>, random_state |-> <<>>],
   [sigma |-> 2, size |-> 3, shape |-> <<1, NPix>>, random_state |-> <<>>],
   [sigma |-> 2, size |-> 2, shape |-> <<1, NPix>>, random_state |-> <<7>>],
   [sigma |-> 1, size |-> 3, shape |-> <<NPix>>, random_state |-> <<7>>]}

Thresholds == 0..Scale

Images ==
  {ndarray(sh, d) : sh \in Shapes, d \in [1..NPix -> Vals]}
    \cup {MaskedArray(sh, d, m) :
            sh \in Shapes, d \in [1..NPix -> Vals], m \in [1..NPix -> BOOLEAN]}

\* The images whose first smo_probability result is remembered in first:
\* the plain arrays holding the ramp 1, 2, ... (modulo the number of values).
Probes ==
  {im \in Images :
     /\ ~im.masked
     /\ \A i \in 1..NPix : im.data[i] = i % (MaxVal + 1)}

\* ------------------------------------------------------------ the machine
\* ctor: the arguments the object was constructed with; self: the object;
\* calibrations: how many times smo_rv has run; array: the caller's image;
\* last: the most recent call on the caller's array as it is now, with what
\* it gave back; first: the first successful smo_probability call on a probe.
Call(op, threshold, r) ==
  [op |-> op, threshold |-> threshold, raised |-> r.raised,
   kind |-> r.kind, field |-> r.field, rv |-> r.rv, log |-> r.log]

NoCall == Call("none", <<>>, Raise(<<>>))

\* first, once a later call has been made.
Later(f) == IF f = <<>> THEN f ELSE <<[f[1] EXCEPT !.later = TRUE]>>

Init ==
  /\ ctor \in CtorArgs
  /\ self = SMO_init(ctor)
  /\ calibrations = 1
  /\ array \in Images
  /\ last = NoCall
  /\ first = <<>>

\* The caller changes its array between calls: writes a pixel,
\* masks or unmasks a pixel of a masked array, wraps a plain array as a
\* masked array or takes the data of a masked array, or reshapes it.
caller_writes_pixel ==
  \E i \in 1..NPix, v \in Vals :
    /\ array.data[i] # v
    /\ array' = [array EXCEPT !.data[i] = v]
    /\ last' = NoCall
    /\ UNCHANGED <<ctor, self, calibrations, first>>

caller_sets_mask ==
  \E i \in 1..NPix :
    /\ array.masked
    /\ array' = [array EXCEPT !.mask[i] = ~array.mask[i]]
    /\ last' = NoCall
    /\ UNCHANGED <<ctor, self, calibrations, first>>

caller_wraps ==
  /\ array' = IF array.masked THEN ndarray(array.shape, array.data)
              ELSE MaskedArray(array.shape, array.data, array.mask)
  /\ last' = NoCall
  /\ UNCHANGED <<ctor, self, calibrations, first>>

caller_reshapes ==
  \E sh \in Shapes :
    /\ sh # array.shape
    /\ array' = [array EXCEPT !.shape = sh]
    /\ last' = NoCall
    /\ UNCHANGED <<ctor, self, calibrations, first>>

\* smo_image calibrating again before it runs
smo_image_call_recalibrates ==
  /\ self' = SMO_init(ctor)
  /\ calibrations' = calibrations + 1
  /\ last' = Call("smo_image", <<>>, SMO_smo_image(self', array))
  /\ first' = Later(first)
  /\ UNCHANGED <<ctor, array>>

smo_image_call ==
  /\ last' = Call("smo_image", <<>>, SMO_smo_image(self, array))
  /\ first' = Later(first)
  /\ UNCHANGED <<ctor, self, calibrations, array>>

smo_probability_call ==
  LET r == SMO_smo_probability(self, array)
  IN  /\ last' = Call("smo_probability", <<>>, r)
      /\ first' = IF first = <<>> /\ ~r.raised /\ array \in Probes
                  THEN <<[image |-> array, field |-> r.field,
                          later |-> FALSE]>>
                  ELSE Later(first)
      /\ UNCHANGED <<ctor, self, calibrations, array>>

bg_mask_call ==
  \E threshold \in Thresholds :
    /\ last' = Call("bg_mask", <<threshold>>,
                    SMO_bg_mask(self, array, threshold))
    /\ first' = Later(first)
    /\ UNCHANGED <<ctor, self, calibrations, array>>

\* bg_rv keeping the background distribution in self.smo_rv
bg_rv_call_keeps_rv ==
  \E threshold \in Thresholds :
    LET r == SMO_bg_rv(self, array, threshold)
    IN  /\ last' = Call("bg_rv", <<threshold>>, r)
        /\ self' = IF r.raised THEN self ELSE [self EXCEPT !.smo_rv = r.rv]
        /\ first' = Later(first)
        /\ UNCHANGED <<ctor, calibrations, array>>

bg_rv_call ==
  \E threshold \in Thresholds :
    /\ last' = Call("bg_rv", <<threshold>>,
                    SMO_bg_rv(self, array, threshold))
    /\ first' = Later(first)
    /\ UNCHANGED <<ctor, self, calibrations, array>>

bg_probability_call ==
  \E threshold \in Thresholds :
    /\ last' = Call("bg_probability", <<threshold>>,
                    SMO_bg_probability(self, array, threshold))
    /\ first' = Later(first)
    /\ UNCHANGED <<ctor, self, calibrations, array>>

Next ==
  \/ caller_writes_pixel
  \/ caller_sets_mask
  \/ caller_wraps
  \/ caller_reshapes
  \/ smo_image_call
  \/ smo_probability_call
  \/ bg_mask_call
  \/ bg_rv_call
  \/ bg_probability_call

Spec == Init /\ [][Next]_vars

\* ----------------------------------------------------------------- claims
Called == last.op # "none"

Returned == Called /\ ~last.raised

CoreCalls == {"smo", "bg_mask", "bg_rv"}

DistributionCalls == {"ppf", "cdf"}

BgOps == {"bg_mask", "bg_rv", "bg_probability"}

\* The field _check_image gives for the caller's array as it is now.
Checked == SMO_check_image(self, array).image

\* The mask derived for a plain array: the positions that hold its maximum.
MaxMask(data) == [i \in DOMAIN data |-> FEq(data[i], ArrayMax(data))]

Unmasked(f) == {i \in DOMAIN f.mask : ~f.mask[i]}

HasNaN(data) == \E i \in DOMAIN data : IsNaN(data[i])

Constant(data) == \A i, j \in DOMAIN data : data[i] = data[j]

LogCalls(names) == {k \in DOMAIN last.log : last.log[k][1] \in names}

\* C1: a call of any of the five operations on an image whose ndim differs
\* from the object's raises the dimension error, having invoked neither the
\* SMO transform, nor the core bg_mask or bg_rv, nor the Null Distribution's
\* ppf or cdf, and gives no result.
C1_DimensionMismatchRaises ==
  (Called /\ ndim(array) # self.ndim) =>
    /\ last.raised
    /\ last.kind = "none"
    /\ LogCalls(CoreCalls \cup DistributionCalls \cup {"bg_cdf"}) = {}

C1_Witness ==
  /\ last.op = "bg_probability"
  /\ ndim(array) # self.ndim
  /\ last.raised

\* C2: for a plain array of the right ndim, every masked field handed to the
\* core (smo, bg_mask, bg_rv) has the input's shape and values and a mask
\* that is true exactly where the value equals the array's maximum; and the
\* core is handed one.
C2_DerivedMaskIsMaximum ==
  (Returned /\ ~array.masked) =>
    /\ LogCalls(CoreCalls) # {}
    /\ \A k \in LogCalls(CoreCalls) :
         LET f == last.log[k][2]
         IN  /\ f.masked
             /\ f.shape = array.shape
             /\ f.data = array.data
             /\ f.mask = MaxMask(array.data)

C2_Witness ==
  /\ last.op = "bg_rv"
  /\ ~last.raised
  /\ ~array.masked
  /\ \E i, j \in 1..NPix :
       /\ array.data[i] = ArrayMax(array.data)
       /\ FLe(array.data[j], array.data[i]) /\ array.data[j] # array.data[i]

\* C3: whatever calls were made, succeeding or failing, one calibration has
\* been performed and the object's sigma, size, ndim and Null Distribution
\* are those that construction set.
C3_CalibratedOnce ==
  /\ calibrations = 1
  /\ self = SMO_init(ctor)

C3_Witness ==
  /\ last.raised
  /\ first # <<>>
  /\ calibrations = 1

\* C4: bg_mask leaves masked every pixel masked in the field handed to the
\* core, and leaves unmasked exactly the pixels unmasked in that field whose
\* SMO value is at or below ppf(threshold).
C4_BgMaskKeepsInputMask ==
  (last.op = "bg_mask" /\ ~last.raised) =>
    LET s == smo(Checked, self.sigma, self.size)
        cutoff == ppf(self.smo_rv, last.threshold[1])
    IN  /\ last.kind = "field"
        /\ \A i \in 1..NPix : Checked.mask[i] => last.field.mask[i]
        /\ Unmasked(last.field) =
             {i \in Unmasked(Checked) : FLe(s.data[i], cutoff)}

C4_Witness ==
  /\ last.op = "bg_mask"
  /\ ~last.raised
  /\ \E i, j \in 1..NPix :
       /\ Checked.mask[i]
       /\ ~last.field.mask[j]

\* C5: the outputs of smo_probability and bg_probability have the input's
\* shape and carry exactly the mask of the checked input: the caller's mask
\* for a masked array, the maximum-value mask for a plain array.
C5_ProbabilityKeepsMask ==
  (last.op \in {"smo_probability", "bg_probability"} /\ ~last.raised) =>
    /\ last.kind = "field"
    /\ last.field.shape = array.shape
    /\ DOMAIN last.field.data = DOMAIN array.data
    /\ last.field.mask =
         IF array.masked THEN array.mask ELSE MaxMask(array.data)

C5_Witness ==
  /\ last.op = "smo_probability"
  /\ ~last.raised
  /\ array.masked
  /\ \A i \in 1..NPix : ~array.mask[i] /\ array.data[i] = 0
  /\ Unmasked(last.field) = 1..NPix

\* C6: for the object and the image of a bg_mask call, every pixel that is
\* background at a threshold no greater than the call's is background in
\* the call's result.
C6_ThresholdMonotone ==
  (last.op = "bg_mask" /\ ~last.raised) =>
    \A t1 \in Thresholds :
      t1 <= last.threshold[1] =>
        LET lower == SMO_bg_mask(self, array, t1).field
        IN  /\ Unmasked(lower) \subseteq Unmasked(last.field)
            /\ Cardinality(Unmasked(lower))
                 <= Cardinality(Unmasked(last.field))

C6_Witness ==
  /\ last.op = "bg_mask"
  /\ ~last.raised
  /\ \E t1 \in Thresholds :
       /\ t1 < last.threshold[1]
       /\ Cardinality(Unmasked(SMO_bg_mask(self, array, t1).field))
            < Cardinality(Unmasked(last.field))

\* C7, as stated, for an image of finite values: bg_mask at threshold 0
\* leaves every pixel masked, and at threshold 1 its result has the mask of
\* the input, whatever the SMO values of the image.
C7_Original ==
  (last.op = "bg_mask" /\ ~last.raised /\ ~HasNaN(array.data)) =>
    /\ last.threshold[1] = 0 => Unmasked(last.field) = {}
    /\ last.threshold[1] = Scale => last.field.mask = Checked.mask

\* C7, amended: bg_mask at threshold 0 leaves unmasked exactly the unmasked
\* pixels whose SMO value is at or below the lower end of the calibrated
\* range, ppf(0), and at threshold 1 exactly those at or below its upper
\* end, ppf(1); so at threshold 1 the result has the mask of the input when
\* every unmasked SMO value is at or below that upper end.
C7_AtCalibratedRange ==
  (last.op = "bg_mask" /\ ~last.raised) =>
    LET s == smo(Checked, self.sigma, self.size)
        lo == SetMin(Support(self.smo_rv))
        hi == SetMax(Support(self.smo_rv))
    IN  /\ last.threshold[1] = 0 =>
             Unmasked(last.field) =
               {i \in Unmasked(Checked) : FLe(s.data[i], lo)}
        /\ last.threshold[1] = Scale =>
             /\ Unmasked(last.field) =
                  {i \in Unmasked(Checked) : FLe(s.data[i], hi)}
             /\ (\A i \in Unmasked(Checked) : FLe(s.data[i], hi))
                  => last.field.mask = Checked.mask

C7_Witness ==
  /\ last.op = "bg_mask"
  /\ ~last.raised
  /\ last.threshold[1] = Scale
  /\ \E i \in Unmasked(Checked) :
       /\ ~IsNaN(smo(Checked, self.sigma, self.size).data[i])
       /\ smo(Checked, self.sigma, self.size).data[i]
            > SetMax(Support(self.smo_rv))
       /\ last.field.mask[i]

\* C8: a smo_probability call on the image of the first smo_probability
\* call gives the output that call gave, values and mask, whatever calls
\* were made in between.
C8_SmoProbabilityRepeats ==
  (/\ last.op = "smo_probability"
   /\ ~last.raised
   /\ first # <<>>
   /\ first[1].image = array) => last.field = first[1].field

C8_Witness ==
  /\ last.op = "smo_probability"
  /\ ~last.raised
  /\ first # <<>>
  /\ first[1].image = array
  /\ first[1].later

\* C9: a successful bg_mask, bg_rv or bg_probability call queries ppf once,
\* with the call's threshold, after the checks of the image and before the
\* one call into the core, which is passed the value ppf gave.
C9_OnePpfPerCall ==
  (last.op \in BgOps /\ ~last.raised) =>
    LET L == last.log
        n == IF last.op = "bg_probability" THEN 2 ELSE 1
    IN  /\ Cardinality(LogCalls({"ppf"})) = 1
        /\ Cardinality(LogCalls(CoreCalls)) = 1
        /\ \A k \in 1..n : L[k][1] = "_check_image"
        /\ L[n + 1][1] = "ppf"
        /\ L[n + 1][2] = last.threshold[1]
        /\ L[n + 2][1] = (IF last.op = "bg_mask" THEN "bg_mask" ELSE "bg_rv")
        /\ L[n + 2][5] = L[n + 1][3]

C9_Witness ==
  /\ last.op = "bg_probability"
  /\ ~last.raised
  /\ Len(last.log) = 5
  /\ last.threshold[1] = 1

\* C10, as stated: the check of a checked image gives it back unchanged, so
\* bg_probability fits the background on the field whose mask it outputs;
\* the mask derived for a plain array excludes at least one pixel, and all
\* pixels when the array is constant, and bg_mask then leaves no pixel
\* unmasked at any threshold.
C10_Original ==
  Returned =>
    /\ SMO_check_image(self, Checked) = [raised |-> FALSE, image |-> Checked]
    /\ last.op = "bg_probability" =>
         \A k \in LogCalls({"bg_rv"}) :
           /\ last.log[k][2] = Checked
           /\ last.log[k][2].mask = last.field.mask
    /\ ~array.masked =>
         /\ Unmasked(Checked) # 1..NPix
         /\ Constant(array.data) =>
              /\ Unmasked(Checked) = {}
              /\ \A t \in Thresholds :
                   Unmasked(SMO_bg_mask(self, array, t).field) = {}

\* C10, amended: as stated for the plain arrays that hold no NaN; for a
\* plain array that holds a NaN the derived mask excludes no pixel.
C10_CheckIdempotentMaskNonEmpty ==
  Returned =>
    /\ SMO_check_image(self, Checked) = [raised |-> FALSE, image |-> Checked]
    /\ last.op = "bg_probability" =>
         \A k \in LogCalls({"bg_rv"}) :
           /\ last.log[k][2] = Checked
           /\ last.log[k][2].mask = last.field.mask
    /\ (~array.masked /\ HasNaN(array.data)) =>
         Unmasked(Checked) = 1..NPix
    /\ (~array.masked /\ ~HasNaN(array.data)) =>
         /\ Unmasked(Checked) # 1..NPix
         /\ Constant(array.data) =>
              /\ Unmasked(Checked) = {}
              /\ \A t \in Thresholds :
                   Unmasked(SMO_bg_mask(self, array, t).field) = {}

C10_Witness ==
  /\ last.op = "bg_mask"
  /\ ~last.raised
  /\ ~array.masked
  /\ ~HasNaN(array.data)
  /\ Constant(array.data)
  /\ Unmasked(last.field) = {}

====
